---- MODULE Spec2Model ----
(***************************************************************************)
(* A model of LogParser (logfile_parser.py): the three line patterns and   *)
(* their matching, the per-format extractors, format detection, the        *)
(* parse_log file pass and the analyze tabulation.                          *)
(*                                                                         *)
(* Text is a sequence of one-character strings.  Python's None is the      *)
(* empty tuple and a present value x is <<x>> wherever a value is optional. *)
(***************************************************************************)
EXTENDS Integers, Sequences, FiniteSets, TLC

(***************************************************************************)
(* Regular expressions: the subset of Python's re that the patterns use,   *)
(* matched as re.match does, anchored at the start, by backtracking in     *)
(* priority order (greedy: longest first, lazy: shortest first, an         *)
(* alternation: its branches left to right).                               *)
(***************************************************************************)
DigitChars == {"0", "1", "2", "3", "4", "5", "6", "7", "8", "9"}

LowerLetters ==
    <<"a", "b", "c", "d", "e", "f", "g", "h", "i", "j", "k", "l", "m",
      "n", "o", "p", "q", "r", "s", "t", "u", "v", "w", "x", "y", "z">>

UpperLetters ==
    <<"A", "B", "C", "D", "E", "F", "G", "H", "I", "J", "K", "L", "M",
      "N", "O", "P", "Q", "R", "S", "T", "U", "V", "W", "X", "Y", "Z">>

Range(f) == {f[i] : i \in DOMAIN f}

LetterChars == Range(LowerLetters) \cup Range(UpperLetters)

\* \w
WordChars == DigitChars \cup LetterChars \cup {"_"}

\* the characters str.strip() removes and \s matches
SpaceChars == {" ", "\t", "\n", "\r"}

\* hi = -1: no upper limit
Rep(cs, neg, lo, hi, lazy) ==
    [k |-> "rep", cs |-> cs, neg |-> neg, lo |-> lo, hi |-> hi,
     lazy |-> lazy, g |-> 0, alts |-> <<>>]

\* a literal run of characters
Lits(text) ==
    <<[k |-> "lit", cs |-> {}, neg |-> FALSE, lo |-> 0, hi |-> 0,
       lazy |-> FALSE, g |-> 0, alts |-> <<text>>]>>

Lit(c) == Lits(<<c>>)

OneOf(cs) == Rep(cs, FALSE, 1, 1, FALSE)

\* .*? and .* : any character but a line break
AnyLazy == Rep({"\n"}, TRUE, 0, -1, TRUE)

AnyGreedy == Rep({"\n"}, TRUE, 0, -1, FALSE)

\* \d+ , \w+ , \d{1,3}
Digits1 == Rep(DigitChars, FALSE, 1, -1, FALSE)

Words1 == Rep(WordChars, FALSE, 1, -1, FALSE)

Digits13 == Rep(DigitChars, FALSE, 1, 3, FALSE)

Open(g) ==
    [k |-> "open", cs |-> {}, neg |-> FALSE, lo |-> 0, hi |-> 0,
     lazy |-> FALSE, g |-> g, alts |-> <<>>]

Close(g) ==
    [k |-> "close", cs |-> {}, neg |-> FALSE, lo |-> 0, hi |-> 0,
     lazy |-> FALSE, g |-> g, alts |-> <<>>]

Alt(branches) ==
    [k |-> "alt", cs |-> {}, neg |-> FALSE, lo |-> 0, hi |-> 0,
     lazy |-> FALSE, g |-> 0, alts |-> branches]

Group(g, pat) == <<Open(g)>> \o pat \o <<Close(g)>>

NoMatch == [ok |-> FALSE, end |-> 0, caps |-> <<>>]

InClass(c, it) == IF it.neg THEN c \notin it.cs ELSE c \in it.cs

SetMin(S) == CHOOSE m \in S : \A o \in S : m <= o

SetMax(S) == CHOOSE m \in S : \A o \in S : m >= o

\* how many characters from pos on the item can take
RunLen(it, s, pos) ==
    LET stops == {j \in pos..Len(s) : ~InClass(s[j], it)}
        free == (IF stops = {} THEN Len(s) + 1 ELSE SetMin(stops)) - pos
    IN  IF it.hi >= 0 /\ free > it.hi THEN it.hi ELSE free

StartsWith(s, pos, text) ==
    /\ pos + Len(text) - 1 <= Len(s)
    /\ \A i \in 1..Len(text) : s[pos + i - 1] = text[i]

\* An item that takes a text of one length only: a literal, a group mark, a
\* repetition with one count.
IsFixed(it) == it.k \in {"lit", "open", "close"} \/ (it.k = "rep" /\ it.lo = it.hi)

Width(it) ==
    CASE it.k = "lit" -> Len(it.alts[1])
      [] it.k = "rep" -> it.lo
      [] OTHER -> 0

\* the items before the first choice point (an alternation, or a repetition
\* with several counts)
FixedLen(pat) ==
    LET choice == {i \in 1..Len(pat) : ~IsFixed(pat[i])}
    IN  IF choice = {} THEN Len(pat) ELSE SetMin(choice) - 1

\* where item i of the fixed items starts, the match being at pos
FixedAt(pat, pos, i) ==
    pos + Cardinality(UNION {{<<j, c>> : c \in 1..Width(pat[j])} :
                                j \in 1..(i - 1)})

FixedOk(pat, s, pos, k) ==
    \A i \in 1..k :
        LET at == FixedAt(pat, pos, i)
        IN  CASE pat[i].k = "lit" -> StartsWith(s, at, pat[i].alts[1])
              [] pat[i].k = "rep" ->
                    /\ at + pat[i].lo - 1 <= Len(s)
                    /\ \A c \in 0..(pat[i].lo - 1) : InClass(s[at + c], pat[i])
              [] OTHER -> TRUE

\* the groups after the group marks among the first k items
FixedCaps(pat, pos, k, caps) ==
    [g \in DOMAIN caps |->
        LET opens == {i \in 1..k : pat[i].k = "open" /\ pat[i].g = g}
            closes == {i \in 1..k : pat[i].k = "close" /\ pat[i].g = g}
            from == IF opens = {} THEN caps[g][1]
                    ELSE FixedAt(pat, pos, SetMax(opens))
            to == IF closes # {} THEN FixedAt(pat, pos, SetMax(closes))
                  ELSE IF opens # {} THEN from ELSE caps[g][2]
        IN  <<from, to>>]

RECURSIVE MatchFrom(_, _, _, _)

\* of the tries <<choice, match>> that matched, the one backtracking reaches
\* first: the lowest choice (an alternation's branch, a lazy count) or the
\* highest (a greedy count)
FirstGood(it, good) ==
    IF good = {} THEN NoMatch
    ELSE (CHOOSE t \in good : \A o \in good :
              IF it.k = "alt" \/ it.lazy THEN t[1] <= o[1] ELSE t[1] >= o[1])[2]

\* the choice point it at position at, rest being the pattern behind it
MatchChoice(it, rest, s, at, caps) ==
    FirstGood(it,
        {t \in {<<c, MatchFrom(IF it.k = "alt" THEN it.alts[c] \o rest ELSE rest,
                               s, IF it.k = "alt" THEN at ELSE at + c, caps)>> :
                   c \in IF it.k = "alt" THEN 1..Len(it.alts)
                         ELSE it.lo..RunLen(it, s, at)} :
            t[2].ok})

\* the first k items are fixed
MatchFixed(pat, s, pos, caps, k) ==
    IF ~FixedOk(pat, s, pos, k) THEN NoMatch
    ELSE IF k = Len(pat)
    THEN [ok |-> TRUE, end |-> FixedAt(pat, pos, k + 1),
          caps |-> FixedCaps(pat, pos, k, caps)]
    ELSE MatchChoice(pat[k + 1], SubSeq(pat, k + 2, Len(pat)), s,
                     FixedAt(pat, pos, k + 1), FixedCaps(pat, pos, k, caps))

\* The first match in backtracking order of pat against s from pos on: an
\* alternation tries its branches left to right, a repetition its counts
\* longest first (greedy) or shortest first (lazy).
MatchFrom(pat, s, pos, caps) == MatchFixed(pat, s, pos, caps, FixedLen(pat))

GroupCount(pat) == Cardinality({i \in 1..Len(pat) : pat[i].k = "open"})

\* re.match(pattern, s)
ReMatch(pat, s) ==
    MatchFrom(pat, s, 1, [g \in 1..GroupCount(pat) |-> <<0, 0>>])

\* match.groups()[g - 1]
GroupText(s, m, g) == SubSeq(s, m.caps[g][1], m.caps[g][2] - 1)

(***************************************************************************)
(* self.patterns, in registration order.                                   *)
(***************************************************************************)
IPv4 ==
    <<Digits13>> \o Lit(".") \o <<Digits13>> \o Lit(".")
    \o <<Digits13>> \o Lit(".") \o <<Digits13>>

ApachePattern ==
    Group(1, IPv4) \o Lits(<<" ", "-", " ", "-", " ", "[">>)
    \o Group(2, <<AnyLazy>>) \o Lits(<<"]", " ", "\"">>)
    \o Group(3, <<AnyLazy>>) \o Lits(<<"\"", " ">>)
    \o Group(4, <<Digits1>>) \o Lit(" ")
    \o Group(5, <<Alt(<< <<Digits1>>, Lit("-") >>)>>)

NginxPattern ==
    Group(1, IPv4) \o Lits(<<" ", "-", " ">>) \o <<AnyGreedy>>
    \o Lits(<<" ", "[">>)
    \o Group(2, <<AnyLazy>>) \o Lits(<<"]", " ", "\"">>)
    \o Group(3, <<AnyLazy>>) \o Lits(<<"\"", " ">>)
    \o Group(4, <<Digits1>>) \o Lit(" ")
    \o Group(5, <<Digits1>>) \o Lits(<<" ", "\"">>)
    \o Group(6, <<AnyLazy>>) \o Lits(<<"\"", " ", "\"">>)
    \o Group(7, <<AnyLazy>>) \o Lit("\"")

AppPattern ==
    Lit("[") \o Group(1, <<AnyLazy>>) \o Lits(<<"]", " ", "[">>)
    \o Group(2, <<Words1>>) \o Lits(<<"]", " ", "[">>)
    \o Group(3, <<AnyLazy>>) \o Lits(<<"]", " ">>)
    \o Group(4, <<AnyGreedy>>)

FormatNames == <<"apache", "nginx", "app">>

patterns ==
    [f \in {"apache", "nginx", "app"} |->
        CASE f = "apache" -> ApachePattern
          [] f = "nginx" -> NginxPattern
          [] OTHER -> AppPattern]

(***************************************************************************)
(* Text helpers: str.strip(), str.split(), int().                          *)
(***************************************************************************)
\* str.strip()
Strip(s) ==
    LET keep == {i \in 1..Len(s) : s[i] \notin SpaceChars}
    IN  IF keep = {} THEN <<>> ELSE SubSeq(s, SetMin(keep), SetMax(keep))

\* str.split(): the maximal runs of non-whitespace, in order
Split(s) ==
    LET starts == {i \in 1..Len(s) :
                      /\ s[i] \notin SpaceChars
                      /\ (i = 1 \/ s[i - 1] \in SpaceChars)}
        ends == {i \in 1..Len(s) :
                    /\ s[i] \notin SpaceChars
                    /\ (i = Len(s) \/ s[i + 1] \in SpaceChars)}
        Kth(S, k) == CHOOSE e \in S : Cardinality({o \in S : o < e}) = k - 1
    IN  [k \in 1..Cardinality(starts) |->
            SubSeq(s, Kth(starts, k), Kth(ends, k))]

DigitSeq == <<"0", "1", "2", "3", "4", "5", "6", "7", "8", "9">>

DigitVal(c) == (CHOOSE i \in 1..10 : DigitSeq[i] = c) - 1

RECURSIVE ToInt(_)
\* int(text) of a run of decimal digits
ToInt(text) ==
    IF Len(text) = 0 THEN 0
    ELSE 10 * ToInt(SubSeq(text, 1, Len(text) - 1)) + DigitVal(text[Len(text)])

ToUpper(c) ==
    IF \E i \in 1..26 : LowerLetters[i] = c
    THEN UpperLetters[CHOOSE i \in 1..26 : LowerLetters[i] = c]
    ELSE c

ToLower(c) ==
    IF \E i \in 1..26 : UpperLetters[i] = c
    THEN LowerLetters[CHOOSE i \in 1..26 : UpperLetters[i] = c]
    ELSE c

(***************************************************************************)
(* datetime.strptime(text, layout) for the three layouts the extractors    *)
(* use.  The layout is matched as the library matches it, by the regular   *)
(* expression it builds for each directive (case-insensitively), the text  *)
(* must be consumed whole, and the fields must make a valid datetime.      *)
(* A parsed value is <<"datetime", Y, m, d, H, M, S, microsecond, tz>>,    *)
(* tz the UTC offset in seconds (<<>> for a naive value); a ValueError is  *)
(* <<>>.  The fraction of a second that %z admits in an offset is left     *)
(* out.                                                                    *)
(***************************************************************************)
MonthNames ==
    << <<"j", "a", "n">>, <<"f", "e", "b">>, <<"m", "a", "r">>,
       <<"a", "p", "r">>, <<"m", "a", "y">>, <<"j", "u", "n">>,
       <<"j", "u", "l">>, <<"a", "u", "g">>, <<"s", "e", "p">>,
       <<"o", "c", "t">>, <<"n", "o", "v">>, <<"d", "e", "c">> >>

Between(lo, hi) == OneOf({DigitSeq[i + 1] : i \in lo..hi})

AnyDigit == Between(0, 9)

\* (X)?
Optional(pat) == Alt(<<pat, <<>>>>)

\* %d
DirDay ==
    Alt(<< Lit("3") \o <<Between(0, 1)>>, <<Between(1, 2), AnyDigit>>,
           Lit("0") \o <<Between(1, 9)>>, <<Between(1, 9)>>,
           Lit(" ") \o <<Between(1, 9)>> >>)

\* %b
DirMonthName ==
    Alt([i \in 1..12 |->
            [j \in 1..3 |->
                OneOf({MonthNames[i][j], ToUpper(MonthNames[i][j])})]])

\* %m
DirMonth ==
    Alt(<< Lit("1") \o <<Between(0, 2)>>, Lit("0") \o <<Between(1, 9)>>,
           <<Between(1, 9)>> >>)

\* %Y
DirYear == Rep(DigitChars, FALSE, 4, 4, FALSE)

\* %H
DirHour ==
    Alt(<< Lit("2") \o <<Between(0, 3)>>, <<Between(0, 1), AnyDigit>>,
           <<AnyDigit>> >>)

\* %M
DirMinute == Alt(<< <<Between(0, 5), AnyDigit>>, <<AnyDigit>> >>)

\* %S
DirSecond ==
    Alt(<< Lit("6") \o <<Between(0, 1)>>, <<Between(0, 5), AnyDigit>>,
           <<AnyDigit>> >>)

\* %f
DirMicro == Rep(DigitChars, FALSE, 1, 6, FALSE)

OptColon == Rep({":"}, FALSE, 0, 1, FALSE)

\* %z
DirZone ==
    Alt(<< <<OneOf({"+", "-"}), AnyDigit, AnyDigit, OptColon,
             Between(0, 5), AnyDigit,
             Optional(<<OptColon, Between(0, 5), AnyDigit>>)>>,
           Lit("Z") >>)

\* whitespace in a layout
LayoutSpace == Rep(SpaceChars, FALSE, 1, -1, FALSE)

\* "%d/%b/%Y:%H:%M:%S %z"
ClfLayout ==
    Group(1, <<DirDay>>) \o Lit("/") \o Group(2, <<DirMonthName>>)
    \o Lit("/") \o Group(3, <<DirYear>>) \o Lit(":")
    \o Group(4, <<DirHour>>) \o Lit(":") \o Group(5, <<DirMinute>>)
    \o Lit(":") \o Group(6, <<DirSecond>>) \o <<LayoutSpace>>
    \o Group(7, <<DirZone>>)

\* "%Y-%m-%d %H:%M:%S"
AppLayoutPlain ==
    Group(1, <<DirYear>>) \o Lit("-") \o Group(2, <<DirMonth>>)
    \o Lit("-") \o Group(3, <<DirDay>>) \o <<LayoutSpace>>
    \o Group(4, <<DirHour>>) \o Lit(":") \o Group(5, <<DirMinute>>)
    \o Lit(":") \o Group(6, <<DirSecond>>)

\* "%Y-%m-%d %H:%M:%S,%f"
AppLayoutMicro == AppLayoutPlain \o Lit(",") \o Group(7, <<DirMicro>>)

IsLeap(y) == y % 4 = 0 /\ (y % 100 # 0 \/ y % 400 = 0)

DaysInMonth(y, m) ==
    IF m = 2 THEN (IF IsLeap(y) THEN 29 ELSE 28)
    ELSE IF m \in {4, 6, 9, 11} THEN 30 ELSE 31

\* the number of a month name, whatever its case
MonthNumber(text) ==
    CHOOSE i \in 1..12 : MonthNames[i] = [j \in 1..3 |-> ToLower(text[j])]

\* %f: the digits, padded on the right to six
MicroValue(text) ==
    ToInt(text \o [i \in 1..(6 - Len(text)) |-> "0"])

\* the offset %z names in seconds, <<>> when it is a day or more
ZoneOffset(text) ==
    IF text = <<"Z">> THEN <<0>>
    ELSE LET digits == SelectSeq(Tail(text), LAMBDA c : c # ":")
             secs == 3600 * ToInt(SubSeq(digits, 1, 2))
                     + 60 * ToInt(SubSeq(digits, 3, 4))
                     + ToInt(SubSeq(digits, 5, Len(digits)))
         IN  IF secs >= 86400 THEN <<>>
             ELSE IF text[1] = "-" THEN <<0 - secs>> ELSE <<secs>>

\* the datetime of the fields, <<>> when they are out of range
MakeDatetime(Y, m, d, H, M, S, us, tz) ==
    IF /\ Y >= 1
       /\ d <= DaysInMonth(Y, m)
       /\ S <= 59
    THEN << <<"datetime", Y, m, d, H, M, S, us, tz>> >>
    ELSE <<>>

LayoutPattern(layout) ==
    CASE layout = "%d/%b/%Y:%H:%M:%S %z" -> ClfLayout
      [] layout = "%Y-%m-%d %H:%M:%S,%f" -> AppLayoutMicro
      [] layout = "%Y-%m-%d %H:%M:%S" -> AppLayoutPlain

\* a numeric field; %d may have matched a leading space
FieldValue(text, found, g) ==
    ToInt(SelectSeq(GroupText(text, found, g), LAMBDA c : c # " "))

\* the datetime of the text that found matched
Converted(text, layout, found) ==
    LET N(g) == FieldValue(text, found, g)
    IN  CASE layout = "%d/%b/%Y:%H:%M:%S %z" ->
                IF ZoneOffset(GroupText(text, found, 7)) = <<>> THEN <<>>
                ELSE MakeDatetime(N(3), MonthNumber(GroupText(text, found, 2)),
                                  N(1), N(4), N(5), N(6), 0,
                                  ZoneOffset(GroupText(text, found, 7)))
          [] layout = "%Y-%m-%d %H:%M:%S,%f" ->
                MakeDatetime(N(1), N(2), N(3), N(4), N(5), N(6),
                             MicroValue(GroupText(text, found, 7)), <<>>)
          [] layout = "%Y-%m-%d %H:%M:%S" ->
                MakeDatetime(N(1), N(2), N(3), N(4), N(5), N(6), 0, <<>>)

\* found is the layout's match: the text must be consumed whole
StrptimeFound(text, layout, found) ==
    IF ~found.ok \/ found.end # Len(text) + 1 THEN <<>>
    ELSE Converted(text, layout, found)

Strptime(text, layout) ==
    StrptimeFound(text, layout, ReMatch(LayoutPattern(layout), text))

(***************************************************************************)
(* LogParser                                                               *)
(***************************************************************************)
\* detect_format: the patterns are tried in registration order from the
\* i-th on
RECURSIVE DetectFrom(_, _)
DetectFrom(i, log_sample) ==
    IF i > Len(FormatNames) THEN <<>>
    ELSE IF ReMatch(patterns[FormatNames[i]], log_sample).ok
         THEN <<FormatNames[i]>>
         ELSE DetectFrom(i + 1, log_sample)

\* detect_format with the registration order reversed: the last pattern that
\* matches decides
DetectLastFirst(log_sample) ==
    LET hits == {i \in 1..Len(FormatNames) :
                    ReMatch(patterns[FormatNames[i]], log_sample).ok}
    IN  IF hits = {} THEN <<>> ELSE <<FormatNames[SetMax(hits)]>>

detect_format(log_sample) == DetectFrom(1, log_sample)

\* method, path, http_version of the parts of a request string
RequestParts(parts) ==
    IF Len(parts) >= 2
    THEN <<parts[1], parts[2], IF Len(parts) > 2 THEN parts[3] ELSE <<>>>>
    ELSE <<<<>>, <<>>, <<>>>>

parse_request(request_string) == RequestParts(Split(request_string))

\* the try/except losing the text when strptime fails
TimestampOrNone(text, parsed) == IF parsed = <<>> THEN <<>> ELSE parsed[1]

\* the try/except around strptime: the parsed value, or the text as it was
TimestampOr(text, parsed) == IF parsed = <<>> THEN text ELSE parsed[1]

\* the timestamp of a request line
ClfTimestamp(text) ==
    TimestampOr(text, Strptime(text, "%d/%b/%Y:%H:%M:%S %z"))

\* the timestamp of an application line: a second layout is tried when the
\* first fails
AppTimestampOr(text, first) ==
    IF first # <<>> THEN first[1]
    ELSE TimestampOr(text, Strptime(text, "%Y-%m-%d %H:%M:%S"))

AppTimestamp(text) ==
    AppTimestampOr(text, Strptime(text, "%Y-%m-%d %H:%M:%S,%f"))

\* if bytes_sent == '-': bytes_sent = 0
BytesSent(text) == IF text = <<"-">> THEN 0 ELSE ToInt(text)

\* the dict parse_apache returns, match being the pattern's match, request
\* the parts of the request string
ApacheEntry(line, match, request) ==
    IF match.ok
    THEN <<[ip |-> GroupText(line, match, 1),
            timestamp |-> ClfTimestamp(GroupText(line, match, 2)),
            method |-> request[1],
            path |-> request[2],
            http_version |-> request[3],
            status |-> ToInt(GroupText(line, match, 4)),
            bytes_sent |-> BytesSent(GroupText(line, match, 5)),
            raw_entry |-> line]>>
    ELSE <<>>

ApacheMatched(line, match) ==
    ApacheEntry(line, match,
                IF match.ok THEN parse_request(GroupText(line, match, 3))
                ELSE <<>>)

parse_apache(line) == ApacheMatched(line, ReMatch(patterns["apache"], line))

NginxEntry(line, match, request) ==
    IF match.ok
    THEN <<[ip |-> GroupText(line, match, 1),
            timestamp |-> ClfTimestamp(GroupText(line, match, 2)),
            method |-> request[1],
            path |-> request[2],
            http_version |-> request[3],
            status |-> ToInt(GroupText(line, match, 4)),
            bytes_sent |-> ToInt(GroupText(line, match, 5)),
            referrer |-> GroupText(line, match, 6),
            user_agent |-> GroupText(line, match, 7),
            raw_entry |-> line]>>
    ELSE <<>>

NginxMatched(line, match) ==
    NginxEntry(line, match,
               IF match.ok THEN parse_request(GroupText(line, match, 3))
               ELSE <<>>)

parse_nginx(line) == NginxMatched(line, ReMatch(patterns["nginx"], line))

AppEntry(line, match) ==
    IF match.ok
    THEN <<[timestamp |-> AppTimestamp(GroupText(line, match, 1)),
            level |-> GroupText(line, match, 2),
            module |-> GroupText(line, match, 3),
            message |-> GroupText(line, match, 4),
            raw_entry |-> line]>>
    ELSE <<>>

parse_app_log(line) == AppEntry(line, ReMatch(patterns["app"], line))

(***************************************************************************)
(* The lines the inputs are drawn from.                                    *)
(***************************************************************************)
Ip == <<"1", ".", "2", ".", "3", ".", "4">>

\* fits "%d/%b/%Y:%H:%M:%S %z"
ClfTime ==
    <<"1", "0", "/", "O", "c", "t", "/", "2", "0", "0", "0", ":", "1", "3",
      ":", "5", "5", ":", "3", "6", " ", "-", "0", "7", "0", "0">>

\* fits "%Y-%m-%d %H:%M:%S"
PlainTime ==
    <<"2", "0", "0", "0", "-", "1", "0", "-", "1", "0", " ", "1", "3", ":",
      "5", "5", ":", "3", "6">>

\* fits "%Y-%m-%d %H:%M:%S,%f"
MicroTime == PlainTime \o <<",", "1", "2", "3">>

\* fits no layout
BadTime == <<"n", "o", "o", "n">>

\* has the shape of "%d/%b/%Y:%H:%M:%S %z" but names no day of the calendar
OffCalendar ==
    <<"3", "1", "/", "F", "e", "b", "/", "2", "0", "0", "0", ":", "1", "3",
      ":", "5", "5", ":", "3", "6", " ", "-", "0", "7", "0", "0">>

\* has the shape of "%Y-%m-%d %H:%M:%S" but names no day of the calendar
OffCalendarPlain ==
    <<"2", "0", "0", "0", "-", "0", "2", "-", "3", "1", " ", "1", "3", ":",
      "5", "5", ":", "3", "6">>

FullRequest ==
    <<"G", "E", "T", " ", "/", "a", " ", "H", "T", "T", "P", "/", "1", ".",
      "1">>

RequestLine(lead, ident, ts, req, status, bytes, tail) ==
    lead \o Ip \o <<" ">> \o ident \o <<" ", "[">> \o ts \o <<"]", " ", "\"">>
    \o req \o <<"\"", " ">> \o status \o <<" ">> \o bytes \o tail

AppLine(lead, ts, level, module, message) ==
    lead \o <<"[">> \o ts \o <<"]", " ", "[">> \o level \o <<"]", " ", "[">>
    \o module \o <<"]", " ">> \o message

\* the referrer and the user agent of an extended request line
ExtendedTail == <<" ", "\"", "-", "\"", " ", "\"", "u", "a", "\"">>

(***************************************************************************)
(* parse_log(file_path, log_format, max_lines)                             *)
(*                                                                         *)
(* file is the text file as its lines, each without its line terminator.   *)
(* pc is where the call stands: "start", "scan" (the second pass over the  *)
(* file), "done" (returned parsed_entries) or "raised" (ValueError).        *)
(* idx counts the lines the second pass has read, handed lists the         *)
(* positions in the file of the lines passed to an extractor.              *)
(***************************************************************************)
VARIABLES file, log_format, max_lines, pc, idx, line_count, parsed_entries,
          handed

parseVars ==
    <<file, log_format, max_lines, pc, idx, line_count, parsed_entries, handed>>

\* Python's truth of an optional number and of an optional string
Truthy(v) == v # <<>> /\ v[1] # 0

\* the dispatch on log_format
Extract(fmt, line) ==
    CASE fmt = "apache" -> parse_apache(line)
      [] fmt = "nginx" -> parse_nginx(line)
      [] fmt = "app" -> parse_app_log(line)
      [] OTHER -> <<>>

\* the accumulation starting over at a line that gave no record
AccumulateOrReset(entries, entry) ==
    IF entry # <<>> THEN Append(entries, entry[1]) ELSE <<>>

\* if entry: parsed_entries.append(entry)
Accumulate(entries, entry) ==
    IF entry # <<>> THEN Append(entries, entry[1]) ELSE entries

\* the break one line late
CapReachedLate(cap, count) == Truthy(cap) /\ count > cap[1]

\* the break without the test that max_lines is truthy
CapReachedAtZero(cap, count) == cap # <<>> /\ count >= cap[1]

\* if max_lines and line_count >= max_lines: break
CapReached(cap, count) == Truthy(cap) /\ count >= cap[1]

\* file.readline(): the first line, the empty text at the end of the file
FirstLine(f) == IF Len(f) = 0 THEN <<>> ELSE f[1]

\* no format given: the first line of the file decides it
DetectFormat ==
    /\ pc = "start"
    /\ log_format = <<>>
    /\ LET found == detect_format(Strip(FirstLine(file)))
       IN  /\ log_format' = found
           /\ pc' = IF found = <<>> THEN "raised" ELSE "scan"
    /\ UNCHANGED <<file, max_lines, idx, line_count, parsed_entries, handed>>

\* a format was given: no detection
UseFormat ==
    /\ pc = "start"
    /\ log_format # <<>>
    /\ pc' = "scan"
    /\ UNCHANGED <<file, log_format, max_lines, idx, line_count,
                   parsed_entries, handed>>

\* one turn of the loop over the file
ReadLine ==
    /\ pc = "scan"
    /\ idx < Len(file)
    /\ idx' = idx + 1
    /\ LET line == Strip(file[idx + 1])
       IN  IF line = <<>>
           THEN UNCHANGED <<pc, line_count, parsed_entries, handed>>
           ELSE /\ parsed_entries' =
                       Accumulate(parsed_entries, Extract(log_format[1], line))
                /\ handed' = Append(handed, idx + 1)
                /\ line_count' = line_count + 1
                /\ pc' = IF CapReached(max_lines, line_count + 1)
                         THEN "done" ELSE "scan"
    /\ UNCHANGED <<file, log_format, max_lines>>

\* the file is exhausted: return parsed_entries
Finish ==
    /\ pc = "scan"
    /\ idx = Len(file)
    /\ pc' = "done"
    /\ UNCHANGED <<file, log_format, max_lines, idx, line_count,
                   parsed_entries, handed>>

(***************************************************************************)
(* analyze(parsed_entries).  A dict of counts is the sequence of its       *)
(* <<key, count>> items in insertion order.  The result is                 *)
(* [raised |-> FALSE, value |-> the analysis], or raised |-> TRUE when a   *)
(* lookup entry[key] fails (KeyError).                                     *)
(***************************************************************************)
TopN == 10

\* counts[key] = counts.get(key, 0) + 1
Bump(counts, key) ==
    IF \E j \in 1..Len(counts) : counts[j][1] = key
    THEN LET j == CHOOSE j \in 1..Len(counts) : counts[j][1] = key
         IN  [counts EXCEPT ![j] = <<key, counts[j][2] + 1>>]
    ELSE Append(counts, <<key, 1>>)

RECURSIVE CountFrom(_, _, _, _)
\* the counting loop from the i-th entry on: <<counts>>, or <<>> when an
\* entry has no such key
CountFrom(es, key, i, counts) ==
    IF i > Len(es) THEN <<counts>>
    ELSE IF key \notin DOMAIN es[i] THEN <<>>
    ELSE CountFrom(es, key, i + 1, Bump(counts, es[i][key]))

CountBy(es, key) == CountFrom(es, key, 1, <<>>)

\* an unstable sort: the next item goes before the items of its own count
InsertBeforeTies(sorted, item) ==
    LET notLarger == {j \in 1..Len(sorted) : sorted[j][2] <= item[2]}
        at == IF notLarger = {} THEN Len(sorted) + 1 ELSE SetMin(notLarger)
    IN  SubSeq(sorted, 1, at - 1) \o <<item>> \o SubSeq(sorted, at, Len(sorted))

\* where sorted(..., key=count, reverse=True) puts the next item: behind
\* every item whose count is not smaller (the sort is stable)
InsertByCount(sorted, item) ==
    LET smaller == {j \in 1..Len(sorted) : sorted[j][2] < item[2]}
        at == IF smaller = {} THEN Len(sorted) + 1 ELSE SetMin(smaller)
    IN  SubSeq(sorted, 1, at - 1) \o <<item>> \o SubSeq(sorted, at, Len(sorted))

RECURSIVE SortedByCount(_)
SortedByCount(items) ==
    IF Len(items) = 0 THEN <<>>
    ELSE InsertByCount(SortedByCount(SubSeq(items, 1, Len(items) - 1)),
                       items[Len(items)])

\* sorted(counts.items(), key=lambda x: x[1], reverse=True)[:10]
Top(counts) ==
    LET sorted == SortedByCount(counts)
    IN  SubSeq(sorted, 1, IF Len(sorted) < TopN THEN Len(sorted) ELSE TopN)

analyze(es) ==
    IF Len(es) = 0
    THEN [raised |-> FALSE, value |-> [error |-> "No entries to analyze"]]
    ELSE LET has(key) == key \in DOMAIN es[1]
             ips == CountBy(es, "ip")
             statuses == CountBy(es, "status")
             paths == CountBy(es, "path")
             levels == CountBy(es, "level")
             modules == CountBy(es, "module")
             webRaised ==
                 /\ has("ip")
                 /\ \/ ips = <<>>
                    \/ statuses = <<>>
                    \/ has("path") /\ paths = <<>>
             appRaised ==
                 /\ has("level")
                 /\ \/ levels = <<>>
                    \/ has("module") /\ modules = <<>>
             web ==
                 IF has("ip")
                 THEN ("top_ips" :> Top(ips[1]))
                      @@ ("status_codes" :> statuses[1])
                      @@ (IF has("path") THEN "top_paths" :> Top(paths[1])
                          ELSE <<>>)
                 ELSE <<>>
             app ==
                 IF has("level")
                 THEN ("log_levels" :> levels[1])
                      @@ (IF has("module") THEN "top_modules" :> Top(modules[1])
                          ELSE <<>>)
                 ELSE <<>>
         IN  IF webRaised \/ appRaised
             THEN [raised |-> TRUE, value |-> <<>>]
             ELSE [raised |-> FALSE, value |-> web @@ app]

(***************************************************************************)
(* The extractors and detect_format called on one line: sample is the line *)
(* by its parts, op the method called ("none" before the call), outcome    *)
(* what it returned.                                                       *)
(***************************************************************************)
VARIABLES sample, op, outcome

extractVars == <<sample, op, outcome>>

SampleText(s) ==
    CASE s.kind = "request" ->
            RequestLine(<<>>, s.ident, s.ts, s.req, s.status, s.bytes, s.tail)
      [] s.kind = "app" -> AppLine(<<>>, s.ts, s.level, s.module, s.message)
      [] OTHER -> s.message

CallApache ==
    /\ op = "none"
    /\ op' = "apache"
    /\ outcome' = parse_apache(SampleText(sample))
    /\ UNCHANGED sample

CallNginx ==
    /\ op = "none"
    /\ op' = "nginx"
    /\ outcome' = parse_nginx(SampleText(sample))
    /\ UNCHANGED sample

CallApp ==
    /\ op = "none"
    /\ op' = "app"
    /\ outcome' = parse_app_log(SampleText(sample))
    /\ UNCHANGED sample

CallDetect ==
    /\ op = "none"
    /\ op' = "detect"
    /\ outcome' = detect_format(SampleText(sample))
    /\ UNCHANGED sample

(***************************************************************************)
(* analyze called on a sequence of records: entries is the sequence,       *)
(* analysis is <<>> before the call and <<the result>> after it.           *)
(***************************************************************************)
VARIABLES entries, analysis

analyzeVars == <<entries, analysis>>

AnalyzeCall ==
    /\ analysis = <<>>
    /\ analysis' = <<analyze(entries)>>
    /\ UNCHANGED entries

vars == <<parseVars, extractVars, analyzeVars>>

(***************************************************************************)
(* Inputs                                                                  *)
(***************************************************************************)
MaxFileLines == 3

MaxCap == 2

MaxEntries == 11

MaxMixed == 3

Dashes == <<"-", " ", "-">>

NamedUser == <<"-", " ", "b", "o", "b">>

Junk == <<"j", "u", "n", "k">>

Info == <<"I", "N", "F", "O">>

Db == <<"d", "b">>

\* a basic request line, one with blanks around it and no byte count, an
\* extended one that names a user, an application line
BasicLine ==
    RequestLine(<<>>, Dashes, ClfTime, FullRequest, <<"2", "0", "0">>,
                <<"5", "1", "2">>, <<>>)

PaddedLine ==
    RequestLine(<<" ">>, Dashes, BadTime, <<"G", "E", "T">>,
                <<"4", "0", "4">>, <<"-">>, <<" ">>)

ExtendedLine ==
    RequestLine(<<>>, NamedUser, ClfTime, FullRequest, <<"2", "0", "0">>,
                <<"5", "1", "2">>, ExtendedTail)

ApplicationLine == AppLine(<<>>, MicroTime, Info, Db, <<"h", "i">>)

FileLines ==
    {<<>>, <<" ">>, BasicLine, PaddedLine, ExtendedLine, ApplicationLine}

Files == UNION {[1..n -> FileLines] : n \in 0..MaxFileLines}

Formats == {<<>>, <<"apache">>, <<"nginx">>, <<"app">>}

Caps == {<<>>} \cup {<<k>> : k \in 0..MaxCap}

IdleSample ==
    [kind |-> "raw", ident |-> <<>>, ts |-> <<>>, req |-> <<>>,
     status |-> <<>>, bytes |-> <<>>, tail |-> <<>>, level |-> <<>>,
     module |-> <<>>, message |-> <<>>]

RequestSamples ==
    {[IdleSample EXCEPT !.kind = "request", !.ident = i, !.ts = t, !.req = r,
                        !.status = <<"2", "0", "0">>, !.bytes = b, !.tail = e] :
        i \in {Dashes, NamedUser, <<"b", "o", "b", " ", "-">>},
        t \in {ClfTime, PlainTime, BadTime, OffCalendar},
        r \in {FullRequest, <<"G", "E", "T">>},
        b \in {<<"5", "1", "2">>, <<"-">>, <<"a", "b", "c">>,
               <<"1", "2", "a", "b", "c">>},
        e \in {<<>>, ExtendedTail}}

AppSamples ==
    {[IdleSample EXCEPT !.kind = "app", !.ts = t, !.level = l, !.module = Db,
                        !.message = m] :
        t \in {MicroTime, PlainTime, ClfTime, BadTime, OffCalendarPlain},
        l \in {Info, <<"a", " ", "b">>},
        m \in {<<>>, <<"h", "i">>}}

Samples ==
    RequestSamples \cup AppSamples
    \cup {IdleSample, [IdleSample EXCEPT !.message = Junk]}

RECURSIVE IntText(_)
\* the decimal digits of a natural number
IntText(n) ==
    IF n < 10 THEN <<DigitSeq[n + 1]>>
    ELSE Append(IntText(n \div 10), DigitSeq[(n % 10) + 1])

\* The records analyze is given are what the extractors return for lines
\* that differ in their address and path, or in their module.
RequestRecords ==
    [i \in 1..(MaxEntries + 1) |->
        parse_apache(
            <<"1", "0", ".", "0", ".", "0", ".">> \o IntText(i)
            \o <<" ">> \o Dashes \o <<" ", "[">> \o ClfTime
            \o <<"]", " ", "\"", "G", "E", "T", " ", "/", "p">> \o IntText(i)
            \o <<"\"", " ">> \o IntText(200 + (i % 3)) \o <<" ", "-">>)[1]]

AppRecords ==
    [i \in 1..(MaxEntries + 1) |->
        parse_app_log(
            AppLine(<<>>, PlainTime,
                    IF i % 2 = 1 THEN Info ELSE <<"W", "A", "R", "N">>,
                    <<"m">> \o IntText(i), <<"h", "i">>))[1]]

IdleParse ==
    /\ file = <<>>
    /\ log_format = <<>>
    /\ max_lines = <<>>
    /\ pc = "idle"
    /\ idx = 0
    /\ line_count = 0
    /\ parsed_entries = <<>>
    /\ handed = <<>>

IdleExtract ==
    /\ sample = IdleSample
    /\ op = "idle"
    /\ outcome = <<>>

IdleAnalyze ==
    /\ entries = <<>>
    /\ analysis = <<>>

(***************************************************************************)
(* Spec: a call of parse_log on any file of the bound, with any format or  *)
(* none and any cap or none.                                               *)
(***************************************************************************)
Init ==
    /\ file \in Files
    /\ log_format \in Formats
    /\ max_lines \in Caps
    /\ pc = "start"
    /\ idx = 0
    /\ line_count = 0
    /\ parsed_entries = <<>>
    /\ handed = <<>>
    /\ IdleExtract
    /\ IdleAnalyze

Next ==
    \/ DetectFormat /\ UNCHANGED <<extractVars, analyzeVars>>
    \/ UseFormat /\ UNCHANGED <<extractVars, analyzeVars>>
    \/ ReadLine /\ UNCHANGED <<extractVars, analyzeVars>>
    \/ Finish /\ UNCHANGED <<extractVars, analyzeVars>>

Spec == Init /\ [][Next]_vars

(***************************************************************************)
(* SpecExtract: one call of an extractor or of detect_format on a line.    *)
(***************************************************************************)
InitExtract ==
    /\ sample \in Samples
    /\ op = "none"
    /\ outcome = <<>>
    /\ IdleParse
    /\ IdleAnalyze

NextExtract ==
    \/ CallApache /\ UNCHANGED <<parseVars, analyzeVars>>
    \/ CallNginx /\ UNCHANGED <<parseVars, analyzeVars>>
    \/ CallApp /\ UNCHANGED <<parseVars, analyzeVars>>
    \/ CallDetect /\ UNCHANGED <<parseVars, analyzeVars>>

SpecExtract == InitExtract /\ [][NextExtract]_vars

(***************************************************************************)
(* SpecAnalyze: analyze called on a sequence of records of one shape, the  *)
(* caller having appended them one by one.  A new record repeats the first *)
(* record or the latest one, or brings the next address (or module) not    *)
(* yet seen.                                                               *)
(***************************************************************************)
InitAnalyze ==
    /\ IdleAnalyze
    /\ IdleParse
    /\ IdleExtract

Distinct(es) == Cardinality({es[j].raw_entry : j \in 1..Len(es)})

AddEntry ==
    /\ analysis = <<>>
    /\ Len(entries) < MaxEntries
    /\ \E table \in {RequestRecords, AppRecords} :
          /\ Len(entries) > 0 => DOMAIN table[1] = DOMAIN entries[1]
          /\ \E e \in {table[Distinct(entries) + 1]}
                      \cup {entries[j] : j \in {1, Len(entries)} \cap DOMAIN entries} :
                entries' = Append(entries, e)
    /\ UNCHANGED analysis

NextAnalyze ==
    \/ AddEntry /\ UNCHANGED <<parseVars, extractVars>>
    \/ AnalyzeCall /\ UNCHANGED <<parseVars, extractVars>>

SpecAnalyze == InitAnalyze /\ [][NextAnalyze]_vars

(***************************************************************************)
(* SpecMixed: analyze called on a short sequence that may mix records of   *)
(* the request shape and of the application shape.                         *)
(***************************************************************************)
MixedPool ==
    {RequestRecords[1], RequestRecords[2], AppRecords[1], AppRecords[2]}

AddMixed ==
    /\ analysis = <<>>
    /\ Len(entries) < MaxMixed
    /\ \E e \in MixedPool : entries' = Append(entries, e)
    /\ UNCHANGED analysis

NextMixed ==
    \/ AddMixed /\ UNCHANGED <<parseVars, extractVars>>
    \/ AnalyzeCall /\ UNCHANGED <<parseVars, extractVars>>

SpecMixed == InitAnalyze /\ [][NextMixed]_vars

(***************************************************************************)
(* Properties of parse_log (Spec)                                          *)
(***************************************************************************)
\* the positions in f of the lines that are not blank, in file order
NonBlank(f) ==
    SelectSeq([i \in 1..Len(f) |-> i], LAMBDA i : Strip(f[i]) # <<>>)

\* the lines of the files without the blanks at their ends
StrippedLines == {Strip(l) : l \in FileLines}

\* of those lines, the ones the pattern of each format matches
MatchedBy ==
    [fmt \in Range(FormatNames) |->
        {l \in StrippedLines : ReMatch(patterns[fmt], l).ok}]

\* what the extractor of each format returns for each of those lines
ExtractedFrom ==
    [fmt \in Range(FormatNames) |-> [l \in StrippedLines |-> Extract(fmt, l)]]

\* the positions among hs of the lines the pattern of fmt matches
Matching(f, fmt, hs) ==
    SelectSeq(hs, LAMBDA i : Strip(f[i]) \in MatchedBy[fmt])

\* the records of the lines at the positions hs, one per position
RecordsAt(f, fmt, hs) ==
    [j \in 1..Len(hs) |-> ExtractedFrom[fmt][Strip(f[hs[j]])][1]]

Returned == pc = "done"

\* C1: with no format supplied, a file whose first non-blank line matches a
\* registered pattern is never refused with the "could not detect log
\* format" error, blank lines before that line notwithstanding.
C1_DetectsFirstNonBlankLine ==
    pc = "raised" =>
        \/ NonBlank(file) = <<>>
        \/ \A f \in Range(FormatNames) :
              ~ReMatch(patterns[f], file[NonBlank(file)[1]]).ok

\* C3: every record parse_log has accumulated carries in raw_entry the text
\* of a line of the file exactly as the file has it, blanks at its ends
\* included.
C3_RawEntryVerbatim ==
    pc \in {"scan", "done"} =>
        \A j \in 1..Len(parsed_entries) :
            \E i \in 1..idx : parsed_entries[j].raw_entry = file[i]

\* C4: with a positive cap k and more than k non-blank lines, the lines
\* handed to extraction are never more than k, and when parse_log returns
\* they are exactly the first k non-blank lines in file order; the result
\* has one record for each of those k lines that extraction did not fail
\* on, so at most k; blank lines do not count.
C4_CapCountsNonBlankLines ==
    (Truthy(max_lines) /\ Len(NonBlank(file)) > max_lines[1]) =>
        /\ Len(handed) <= max_lines[1]
        /\ Returned =>
              /\ handed = SubSeq(NonBlank(file), 1, max_lines[1])
              /\ Len(parsed_entries) <= max_lines[1]
              /\ Len(parsed_entries) =
                     Cardinality({j \in 1..Len(handed) :
                         ExtractedFrom[log_format[1]][Strip(file[handed[j]])]
                             # <<>>})

\* a cap stopped the pass before the end of a file whose first line is blank
C4_Witness ==
    /\ Returned
    /\ Truthy(max_lines)
    /\ Len(NonBlank(file)) > max_lines[1]
    /\ Len(handed) = max_lines[1]
    /\ handed[1] > 1
    /\ parsed_entries # <<>>

\* C5: parse_log raises only when detection fails; once a format is active
\* the accumulated result is exactly the records of the handed lines that
\* the format's pattern matches, in file order, one per such line and none
\* for the others; and with no cap every non-blank line is handed.
C5_LineFailureNotFatal ==
    /\ pc = "raised" => log_format = <<>>
    /\ pc \in {"scan", "done"} =>
          parsed_entries =
              RecordsAt(file, log_format[1], Matching(file, log_format[1], handed))
    /\ (Returned /\ ~Truthy(max_lines)) => handed = NonBlank(file)

\* a line that gave no record stands between two that gave one
C5_Witness ==
    /\ Returned
    /\ Len(handed) = 3
    /\ Len(parsed_entries) = 2
    /\ ExtractedFrom[log_format[1]][Strip(file[handed[2]])] = <<>>

\* C10: a cap of 0 is no cap: parse_log returns only at the end of the
\* file, every non-blank line has been handed to extraction, and the result
\* is the one an uncapped call gives.
C10_ZeroCapIsNoCap ==
    (Returned /\ max_lines = <<0>>) =>
        /\ idx = Len(file)
        /\ handed = NonBlank(file)
        /\ parsed_entries =
               RecordsAt(file, log_format[1],
                         Matching(file, log_format[1], NonBlank(file)))

\* a call with cap 0 returned more than one record
C10_Witness ==
    /\ Returned
    /\ max_lines = <<0>>
    /\ Len(parsed_entries) >= 2

(***************************************************************************)
(* Properties of the extractors and of detect_format (SpecExtract)         *)
(***************************************************************************)
\* a request line all of whose fields but bytes-sent fit the pattern of fmt
WellFormedFor(fmt, s) ==
    /\ s.kind = "request"
    /\ \/ fmt = "apache" /\ s.ident = Dashes
       \/ fmt = "nginx" /\ s.ident \in {Dashes, NamedUser} /\ s.tail = ExtendedTail

\* C2: in both request-style formats an otherwise well-formed line yields a
\* record with bytes_sent = 0 and an integer status when its bytes-sent
\* field is "-", and no record when that field is other non-numeric text.
C2_BytesSentNormalized ==
    (op \in {"apache", "nginx"} /\ WellFormedFor(op, sample)) =>
        /\ sample.bytes = <<"-">> =>
              /\ outcome # <<>>
              /\ outcome[1].bytes_sent = 0
              /\ outcome[1].status \in Int
        /\ sample.bytes \in {<<"a", "b", "c">>, <<"1", "2", "a", "b", "c">>} =>
              outcome = <<>>

\* the timestamp text the pattern of fmt captures in text
Captured(fmt, text) ==
    GroupText(text, ReMatch(patterns[fmt], text), IF fmt = "app" THEN 1 ELSE 2)

\* the text fits none of the layouts the extractor of fmt tries
FitsNoLayout(fmt, text) ==
    IF fmt = "app"
    THEN /\ Strptime(text, "%Y-%m-%d %H:%M:%S,%f") = <<>>
         /\ Strptime(text, "%Y-%m-%d %H:%M:%S") = <<>>
    ELSE Strptime(text, "%d/%b/%Y:%H:%M:%S %z") = <<>>

\* the sample with a timestamp that fits a layout of its format
WithValidTime(s) ==
    [s EXCEPT !.ts = IF s.kind = "app" THEN MicroTime ELSE ClfTime]

\* a record without its timestamp and its raw line
OtherFields(r) == [k \in DOMAIN r \ {"timestamp", "raw_entry"} |-> r[k]]

\* C8: for a line the pattern of apache, nginx or app matches, the extractor
\* returns a record; when the captured timestamp text fits none of the
\* format's layouts the record's timestamp is that text unmodified; and the
\* other fields are those of the same line with a valid timestamp.
C8_TimestampFailureKeepsText ==
    (op \in Range(FormatNames) /\ ReMatch(patterns[op], SampleText(sample)).ok) =>
        /\ outcome # <<>>
        /\ FitsNoLayout(op, Captured(op, SampleText(sample))) =>
              outcome[1].timestamp = Captured(op, SampleText(sample))
        /\ OtherFields(outcome[1]) =
               OtherFields(Extract(op, SampleText(WithValidTime(sample)))[1])

\* parse_nginx kept the text of a timestamp that names no day of the calendar
C8_Witness ==
    /\ op = "nginx"
    /\ sample.ts = OffCalendar
    /\ outcome # <<>>
    /\ outcome[1].timestamp = OffCalendar
    /\ outcome[1].bytes_sent = 512

\* the formats whose pattern matches the text, by their place in the
\* registration order apache, nginx, app
Hits(text) ==
    {i \in 1..3 : ReMatch(patterns[<<"apache", "nginx", "app">>[i]], text).ok}

\* C9: detect_format returns the first format in the order apache, nginx,
\* app whose pattern matches the sample at its start, the same on every
\* call, and None exactly when no pattern matches.
C9_DetectFirstMatch ==
    op = "detect" =>
        /\ outcome = detect_format(SampleText(sample))
        /\ IF Hits(SampleText(sample)) = {} THEN outcome = <<>>
           ELSE outcome = <<<<"apache", "nginx", "app">>[SetMin(Hits(SampleText(sample)))]>>

\* a line both apache and nginx match was detected as apache
C9_Witness ==
    /\ op = "detect"
    /\ {1, 2} \subseteq Hits(SampleText(sample))
    /\ outcome = <<"apache">>

(***************************************************************************)
(* Properties of analyze (SpecMixed, SpecAnalyze)                          *)
(***************************************************************************)
\* C6: analyze does not raise on a non-empty sequence that mixes request
\* records and application records, whatever their order: it returns a
\* mapping.
C6_MixedNeverRaises ==
    (analysis # <<>> /\ entries # <<>>) => ~analysis[1].raised

\* the values the records have under key, how often each occurs and where
\* it occurs first
KeysOf(es, key) == {es[j][key] : j \in 1..Len(es)}

Occurrences(es, key, v) == Cardinality({j \in 1..Len(es) : es[j][key] = v})

FirstSeen(es, key, v) == SetMin({j \in 1..Len(es) : es[j][key] = v})

\* a ranks before b: more occurrences, or as many and seen first
RanksBefore(es, key, a, b) ==
    \/ Occurrences(es, key, a) > Occurrences(es, key, b)
    \/ /\ Occurrences(es, key, a) = Occurrences(es, key, b)
       /\ FirstSeen(es, key, a) < FirstSeen(es, key, b)

\* ranking lists the first 10 of the keys in that order, each with its
\* count
IsRanking(ranking, es, key) ==
    /\ Len(ranking) =
           IF Cardinality(KeysOf(es, key)) < 10
           THEN Cardinality(KeysOf(es, key)) ELSE 10
    /\ \A i \in 1..Len(ranking) :
          /\ ranking[i][1] \in KeysOf(es, key)
          /\ ranking[i][2] = Occurrences(es, key, ranking[i][1])
          /\ \A j \in (i + 1)..Len(ranking) :
                RanksBefore(es, key, ranking[i][1], ranking[j][1])
          /\ \A v \in KeysOf(es, key) \ {ranking[j][1] : j \in 1..Len(ranking)} :
                RanksBefore(es, key, ranking[i][1], v)

\* the rankings analyze returns and the key each is grouped by
Rankings ==
    {<<"top_ips", "ip">>, <<"top_paths", "path">>, <<"top_modules", "module">>}

\* C7: each ranking analyze returns lists the grouped keys by descending
\* count, cut to the first 10, a key of equal count seen earlier in the
\* input standing earlier; past 10 keys, a tied key seen earlier is never
\* dropped for one seen later.
C7_TopTenStableTies ==
    (analysis # <<>> /\ entries # <<>>) =>
        /\ ~analysis[1].raised
        /\ \E r \in Rankings : r[1] \in DOMAIN analysis[1].value
        /\ \A r \in Rankings :
              r[1] \in DOMAIN analysis[1].value =>
                  IsRanking(analysis[1].value[r[1]], entries, r[2])

\* more than ten addresses, the last of them tied with others and dropped
C7_Witness ==
    /\ analysis # <<>>
    /\ ~analysis[1].raised
    /\ "top_ips" \in DOMAIN analysis[1].value
    /\ Cardinality(KeysOf(entries, "ip")) > 10
    /\ Len(analysis[1].value["top_ips"]) = 10
    /\ analysis[1].value["top_ips"][10][2] = 1
    /\ analysis[1].value["top_ips"][1][1] = entries[1].ip

====
